---- MODULE Spec2Model ----
(***************************************************************************)
(* A model of the Keno prediction bot: the SQLite store of database.py     *)
(* (draws and per-number statistics), the scoring engine of analyzer.py    *)
(* and the ingestion path of predictor.py.                                 *)
(*                                                                         *)
(* Arithmetic.  The code computes in floating point; the model computes    *)
(* the same expressions exactly, over the rationals.  A score vector is a  *)
(* function of integer numerators with one common denominator, a           *)
(* confidence is a number of thousandths (the code rounds it to three      *)
(* decimals).  Floating-point rounding error is not modelled.              *)
(*                                                                         *)
(* Time.  The clock counts units of 0.05 day (1.2 hours), so that the      *)
(* three time constants of the code are whole numbers: 0.1 day, 1 day and  *)
(* 72 hours.                                                               *)
(***************************************************************************)
EXTENDS Integers, Sequences, FiniteSets, TLC

\* ----------------------------------------------------------------- bounds

\* The longest ingestion log an earlier run of the process left in the
\* database file.
MaxPrior == 10
\* The number of draws ingested after construction.
MaxAdd == 1
\* The clock advances in steps of this many units (15 units = 18 hours),
TickStep == 15
\* until this many units have passed since construction.
MaxUptime == 60
\* The longest history handed to the scoring function on its own.
MaxHist == 11

\* ------------------------------------------------------ program constants

NumberMax == 80
DrawSize == 20
\* julianday difference below which a hot streak continues: 0.1 day.
HotGap == 2
\* julianday difference from which a cold streak continues: 1 day.
ColdGap == 20
\* generate_advanced_predictions reads the draws of the last 72 hours,
RecentHours == 60
\* and at most 100 of them.
RecentLimit == 100

Numbers == 1..NumberMax

\* ------------------------------------------------------------- arithmetic

Min(a, b) == IF a < b THEN a ELSE b

Max(a, b) == IF a > b THEN a ELSE b

MaxOf(S) == CHOOSE x \in S : \A y \in S : y <= x

\* The one element of a set of one element.  TLC evaluates a definition of a
\* LET anew wherever it is used; a value bound in {e(v) : v \in {x}} is
\* computed once.
Only(S) == CHOOSE x \in S : TRUE

RECURSIVE SumTo(_, _)
\* f[1] + ... + f[n]
SumTo(f, n) == IF n = 0 THEN 0 ELSE f[n] + SumTo(f, n - 1)

\* dict.get(key, 0)
Get(dict, key) == IF key \in DOMAIN dict THEN dict[key] ELSE 0

Range(s) == {s[i] : i \in DOMAIN s}

Reverse(s) == [i \in 1..Len(s) |-> s[Len(s) + 1 - i]]

\* collections.Counter of a list, read at one key
Occ(numbers, n) == Cardinality({i \in DOMAIN numbers : numbers[i] = n})

\* ------------------------------------------------------------- the inputs

\* The draw a, a+b, a+2b, ... of 20 numbers.
Progression(a, b) == [i \in 1..DrawSize |-> a + b * (i - 1)]

\* Valid draws: 1..20, the even numbers 2..40, 3,7,..,79 and 61..80.
Pool == << Progression(1, 1), Progression(2, 2), Progression(3, 4), Progression(61, 1) >>

PoolSize == Len(Pool)

\* ----------------------------------------------------- the scoring engine
\* A sub-score dictionary is a function from its keys to integer numerators;
\* frequency and recency carry their denominator, the other three count
\* tenths.

\* A draw's patterns.  The balances are kept as counts beside the length
\* they are divided by: low_count / len > 0.5 is 2 * low_count > len.  The
\* division raises ZeroDivisionError for an empty list.
_analyze_draw_patterns(numbers) ==
    [error |-> Len(numbers) = 0,
     endings |-> {n % 10 : n \in Range(numbers)},
     decades |-> {(n - 1) \div 10 : n \in Range(numbers)},
     low_count |-> Cardinality({i \in DOMAIN numbers : numbers[i] <= 40}),
     even_count |-> Cardinality({i \in DOMAIN numbers : numbers[i] % 2 = 0}),
     len |-> Len(numbers)]

\* The frequency with one more than the number of draws under the count.
FrequencyOverOneMore(draws) ==
    LET total_draws == Len(draws)
        count == [n \in Numbers |->
                    SumTo([d \in 1..total_draws |-> Occ(draws[d].numbers, n)], total_draws)]
    IN  [num |-> count, den |-> total_draws + 1]

\* count / total_draws per number, 0.01 for an empty history.
_calculate_frequency_scores(draws) ==
    LET total_draws == Len(draws)
        count == [n \in Numbers |->
                    SumTo([d \in 1..total_draws |-> Occ(draws[d].numbers, n)], total_draws)]
    IN  IF total_draws > 0
          THEN [num |-> count, den |-> total_draws]
          ELSE [num |-> [n \in Numbers |-> 1], den |-> 100]

\* The draw at position i (0 the most recent) weighs 1.0 + (N - i) * 0.1,
\* here 10 + N - i tenths; the sums are divided by the largest of them.
_calculate_recency_scores(draws) ==
    LET total_draws == Len(draws)
        keys == UNION {Range(draws[d].numbers) : d \in 1..total_draws}
        scores == [k \in keys |->
                    SumTo([d \in 1..total_draws |->
                             Occ(draws[d].numbers, k) * (10 + total_draws - (d - 1))],
                          total_draws)]
    IN  IF total_draws = 0
          THEN [num |-> << >>, den |-> 1]
          ELSE [num |-> scores,
                den |-> IF keys = {} THEN 10 ELSE MaxOf(Range(scores))]

\* Tenths: 10 only recent, 3 only older, 7 both, 1 neither; {} below 10 draws.
_calculate_hot_cold_scores(draws) ==
    LET recent_count == Max(5, Len(draws) \div 3)
        recent_numbers == UNION {Range(draws[d].numbers) : d \in 1..recent_count}
        older_numbers == UNION {Range(draws[d].numbers) : d \in (recent_count + 1)..Len(draws)}
    IN  IF Len(draws) < 10
          THEN << >>
          ELSE [number \in Numbers |->
                  IF number \in recent_numbers /\ number \notin older_numbers THEN 10
                  ELSE IF number \notin recent_numbers /\ number \in older_numbers THEN 3
                  ELSE IF number \in recent_numbers THEN 7
                  ELSE 1]

\* The pattern scores without the 0.2 for the even/odd balance.
PatternScoresWithoutParity(draws) ==
    LET patterns == _analyze_draw_patterns(draws[1].numbers)
        score(number) ==
              (IF number % 10 \in patterns.endings THEN 3 ELSE 0)
            + (IF (number - 1) \div 10 \in patterns.decades THEN 3 ELSE 0)
            + (IF number <= 40 /\ 2 * patterns.low_count > patterns.len THEN 2
               ELSE IF number > 40 /\ 2 * patterns.low_count < patterns.len THEN 2
               ELSE 0)
    IN  IF Len(draws) < 3
          THEN [error |-> FALSE, scores |-> << >>]
          ELSE IF patterns.error
          THEN [error |-> TRUE, scores |-> << >>]
          ELSE [error |-> FALSE,
                scores |-> [number \in Numbers |-> Min(score(number), 10)]]

\* Tenths, from the patterns of the most recent draw; {} below 3 draws.
_calculate_pattern_scores(draws) ==
    LET patterns == _analyze_draw_patterns(draws[1].numbers)
        score(number) ==
              (IF number % 10 \in patterns.endings THEN 3 ELSE 0)
            + (IF (number - 1) \div 10 \in patterns.decades THEN 3 ELSE 0)
            + (IF number <= 40 /\ 2 * patterns.low_count > patterns.len THEN 2
               ELSE IF number > 40 /\ 2 * patterns.low_count < patterns.len THEN 2
               ELSE 0)
            + (IF number % 2 = 0 /\ 2 * patterns.even_count > patterns.len THEN 2
               ELSE IF number % 2 = 1 /\ 2 * patterns.even_count < patterns.len THEN 2
               ELSE 0)
    IN  IF Len(draws) < 3
          THEN [error |-> FALSE, scores |-> << >>]
          ELSE IF patterns.error
          THEN [error |-> TRUE, scores |-> << >>]
          ELSE [error |-> FALSE,
                scores |-> [number \in Numbers |-> Min(score(number), 10)]]

\* Tenths, from the statistics get_number_stats returned.
_calculate_streak_scores(stats) ==
    [number \in Numbers |->
        LET hot_streak == IF number \in DOMAIN stats THEN stats[number].hot_streak ELSE 0
            cold_streak == IF number \in DOMAIN stats THEN stats[number].cold_streak ELSE 0
        IN  IF hot_streak >= 3 THEN 8
            ELSE IF hot_streak >= 2 THEN 6
            ELSE IF cold_streak >= 5 THEN 9
            ELSE IF cold_streak >= 3 THEN 7
            ELSE 5]

\* The default probabilities over range(1, 80): the key 80 is missing.
DefaultProbabilitiesWithout80 ==
    [error |-> FALSE, num |-> [i \in 1..(NumberMax - 1) |-> 1], den |-> NumberMax]

\* 1/80 for every number.
_get_default_probabilities ==
    [error |-> FALSE, num |-> [i \in Numbers |-> 1], den |-> NumberMax]

\* The normalisation with a total that leaves the last value out.
NormalizeWithout80(combined_scores) ==
    [error |-> FALSE, num |-> combined_scores,
     den |-> SumTo(combined_scores, NumberMax - 1)]

\* The values v / total of the code are num[n] / den here.  The weighted sum
\* is taken over the denominator 1000 * freq.den * recency.den, where the
\* floor 0.001 is freq.den * recency.den.
Normalize(combined_scores) ==
    [error |-> FALSE, num |-> combined_scores, den |-> SumTo(combined_scores, NumberMax)]

calculate_advanced_probabilities(draws, stats) ==
    LET freq_scores == _calculate_frequency_scores(draws)
        recency_scores == _calculate_recency_scores(draws)
        hot_cold_scores == _calculate_hot_cold_scores(draws)
        pattern_scores == _calculate_pattern_scores(draws)
        streak_scores == _calculate_streak_scores(stats)
        unit == freq_scores.den * recency_scores.den
        combined_scores ==
            [number \in Numbers |->
                Max(  250 * Get(freq_scores.num, number) * recency_scores.den
                    + 300 * Get(recency_scores.num, number) * freq_scores.den
                    + 20 * Get(hot_cold_scores, number) * unit
                    + 15 * Get(pattern_scores.scores, number) * unit
                    + 10 * Get(streak_scores, number) * unit,
                    unit)]
    IN  IF Len(draws) < 3
          THEN _get_default_probabilities
          ELSE IF pattern_scores.error
          THEN [error |-> TRUE, num |-> << >>, den |-> 1]
          ELSE Normalize(combined_scores)

\* ------------------------------------------------------------ predictions

\* The dictionary's items in insertion order: the keys 1..80 ascending, for
\* the combined scores and for the default probabilities alike.
Items(probabilities) == [i \in Numbers |-> << i, probabilities.num[i] >>]

\* The ascending sort, reversed: items with equal keys come out in the
\* reverse of the order they came in.
SortedAscendingReversed(items) ==
    LET n == Len(items)
        place(its) ==
            [i \in 1..n |->
                1 + Cardinality({j \in 1..n :
                      \/ its[j][2] > its[i][2]
                      \/ its[j][2] = its[i][2] /\ j > i})]
    IN  Only({[k \in 1..n |-> its[CHOOSE i \in 1..n : pos[i] = k]] :
                << its, pos >> \in {<< its, place(its) >> : its \in {items}}})

\* sorted(items, key=lambda x: x[1], reverse=True).  Python's sort is stable
\* and stays stable under reverse=True: items with equal keys keep the order
\* they came in.
SortedByValueDesc(items) ==
    LET n == Len(items)
        place(its) ==
            [i \in 1..n |->
                1 + Cardinality({j \in 1..n :
                      \/ its[j][2] > its[i][2]
                      \/ its[j][2] = its[i][2] /\ j < i})]
    IN  Only({[k \in 1..n |-> its[CHOOSE i \in 1..n : pos[i] = k]] :
                << its, pos >> \in {<< its, place(its) >> : its \in {items}}})

\* list[a:b] of Python, with 0-based a and exclusive b.
Slice(s, a, b) == SubSeq(s, a + 1, Min(b, Len(s)))

\* The consistency as 1.0 - pattern_changes, the division left out.
ConsistencyUndivided(draws) ==
    LET total_comparisons == Min(5, Len(draws) - 1)
        changed == {i \in 1..total_comparisons :
                      _analyze_draw_patterns(draws[i].numbers).endings
                        # _analyze_draw_patterns(draws[i + 1].numbers).endings}
    IN  IF Len(draws) < 5
          THEN [error |-> FALSE, same |-> 1, pairs |-> 2]
          ELSE [error |-> FALSE, same |-> 1 - Cardinality(changed), pairs |-> 1]

\* The consistency as the fraction of the pairs whose endings changed.
ConsistencyOfChangedPairs(draws) ==
    LET total_comparisons == Min(5, Len(draws) - 1)
        changed == {i \in 1..total_comparisons :
                      _analyze_draw_patterns(draws[i].numbers).endings
                        # _analyze_draw_patterns(draws[i + 1].numbers).endings}
    IN  IF Len(draws) < 5
          THEN [error |-> FALSE, same |-> 1, pairs |-> 2]
          ELSE [error |-> FALSE, same |-> Cardinality(changed),
                pairs |-> Max(total_comparisons, 1)]

\* The fraction of the first min(5, len - 1) neighbouring pairs of draws
\* whose sets of endings are equal, as same / pairs; 0.5 below 5 draws.
_calculate_pattern_consistency(draws) ==
    LET total_comparisons == Min(5, Len(draws) - 1)
        changed == {i \in 1..total_comparisons :
                      _analyze_draw_patterns(draws[i].numbers).endings
                        # _analyze_draw_patterns(draws[i + 1].numbers).endings}
        raised == \E i \in 1..(total_comparisons + 1) :
                      _analyze_draw_patterns(draws[i].numbers).error
    IN  IF Len(draws) < 5
          THEN [error |-> FALSE, same |-> 1, pairs |-> 2]
          ELSE IF raised
          THEN [error |-> TRUE, same |-> 0, pairs |-> 1]
          ELSE IF total_comparisons > 0
          THEN [error |-> FALSE, same |-> total_comparisons - Cardinality(changed),
                pairs |-> total_comparisons]
          ELSE [error |-> FALSE, same |-> 1, pairs |-> 1]

\* The confidence with its constant 0.3 below 5 draws only.
ConfidenceFixedBelow5(draws, probabilities) ==
    LET top_probs == Slice(SortedByValueDesc(Items(probabilities)), 0, 10)
        pattern_confidence == _calculate_pattern_consistency(draws)
    IN  IF Len(draws) < 5
          THEN [error |-> FALSE, fixed |-> TRUE]
          ELSE [error |-> pattern_confidence.error, fixed |-> FALSE,
                data |-> Min(Len(draws), 50),
                top |-> SumTo([i \in 1..Len(top_probs) |-> top_probs[i][2]], Len(top_probs)),
                den |-> probabilities.den,
                same |-> pattern_confidence.same,
                pairs |-> pattern_confidence.pairs]

\* The confidence before it is rounded: the constant 0.3 below 10 draws, and
\* otherwise min(0.4 * data/50 + 0.4 * top/den + 0.2 * same/pairs, 0.95),
\* kept as its five integers.
_calculate_confidence(draws, probabilities) ==
    LET top_probs == Slice(SortedByValueDesc(Items(probabilities)), 0, 10)
        pattern_confidence == _calculate_pattern_consistency(draws)
    IN  IF Len(draws) < 10
          THEN [error |-> FALSE, fixed |-> TRUE]
          ELSE [error |-> pattern_confidence.error, fixed |-> FALSE,
                data |-> Min(Len(draws), 50),
                top |-> SumTo([i \in 1..Len(top_probs) |-> top_probs[i][2]], Len(top_probs)),
                den |-> probabilities.den,
                same |-> pattern_confidence.same,
                pairs |-> pattern_confidence.pairs]

RECURSIVE FloorMul(_, _, _, _)
\* floor((q + r/d) * ms[1] * ms[2] * ...), every product below 10 * d.
FloorMul(q, r, ms, d) ==
    IF ms = << >> THEN q
    ELSE FloorMul(q * Head(ms) + (r * Head(ms)) \div d, (r * Head(ms)) % d, Tail(ms), d)

\* round(confidence, 3), in thousandths.  1000 * confidence is
\* 8 * data + 200 * same/pairs + 400 * top/den; it is rounded to the nearest
\* integer (a tie goes up), and min(., 0.95) before the rounding is
\* min(., 950) after it, the rounding being monotone.
Round3(confidence) ==
    LET K == confidence.pairs
        whole == 16 * confidence.data * K + 400 * confidence.same + K
        part == FloorMul(confidence.top \div confidence.den,
                         confidence.top % confidence.den,
                         << 10, 10, 8, K >>, confidence.den)
    IN  IF confidence.fixed THEN 300
        ELSE Min((whole + part) \div (2 * K), 950)

_get_confidence_message(thousandths) ==
    IF thousandths >= 800 THEN "HIGH CONFIDENCE"
    ELSE IF thousandths >= 600 THEN "GOOD CONFIDENCE"
    ELSE IF thousandths >= 400 THEN "MODERATE CONFIDENCE"
    ELSE "LOW CONFIDENCE"

\* The dictionary with the candidates sliced [4:10]: 6 high numbers.
ScoredPredictionSliceTo10(recent_draws, total_draws, ranked, thousandths) ==
    LET very_high == Slice(ranked, 0, 4)
        high_candidates == Slice(ranked, 4, 10)
        high == Slice(high_candidates, 0, 10)
    IN  [status |-> "ok",
         very_high |-> [i \in 1..Len(very_high) |-> very_high[i][1]],
         high |-> [i \in 1..Len(high) |-> high[i][1]],
         confidence |-> thousandths,
         total_draws |-> total_draws,
         recent_draws |-> Len(recent_draws),
         message |-> _get_confidence_message(thousandths)]

\* Lines 213..231 of generate_advanced_predictions: the dictionary returned
\* for the scores of line 211, their ranking and their confidence.
ScoredPrediction(recent_draws, total_draws, ranked, thousandths) ==
    LET very_high == Slice(ranked, 0, 4)
        high_candidates == Slice(ranked, 4, 20)
        high == Slice(high_candidates, 0, 10)
    IN  [status |-> "ok",
         very_high |-> [i \in 1..Len(very_high) |-> very_high[i][1]],
         high |-> [i \in 1..Len(high) |-> high[i][1]],
         confidence |-> thousandths,
         total_draws |-> total_draws,
         recent_draws |-> Len(recent_draws),
         message |-> _get_confidence_message(thousandths)]

\* generate_advanced_predictions after its two reads: recent_draws and
\* total_draws as the store returned them, stats as get_number_stats returns
\* them inside the scoring, and the two outcomes of random.sample.  The
\* result is the dictionary returned (or the error raised), with the local
\* probabilities beside it.
generate_advanced_predictions(recent_draws, total_draws, stats, sample4, sample10) ==
    IF total_draws < 5
      THEN [scored |-> FALSE,
            probabilities |-> [error |-> FALSE, num |-> << >>, den |-> 1],
            returned |-> [status |-> "ok",
                          very_high |-> sample4,
                          high |-> sample10,
                          confidence |-> 100,
                          message |-> "Low confidence - Need more data"]]
      ELSE Only({
             [scored |-> TRUE,
              probabilities |-> probabilities,
              returned |->
                 IF probabilities.error
                   THEN [status |-> "error"]
                   ELSE Only({
                          IF confidence.error
                            THEN [status |-> "error"]
                            ELSE Only({ScoredPrediction(recent_draws, total_draws,
                                                        ranked, thousandths) :
                                         thousandths \in {Round3(confidence)}}) :
                          << ranked, confidence >> \in
                             {<< SortedByValueDesc(Items(probabilities)),
                                 _calculate_confidence(recent_draws, probabilities) >>}})] :
             probabilities \in {calculate_advanced_probabilities(recent_draws, stats)}})

\* -------------------------------------------------------------- the store

VARIABLES
    db_draws,         \* table draws, in rowid order: [draw_time, numbers]
    db_number_stats,  \* table number_stats: number -> its row, for the rows there are
    now,              \* datetime.now()
    added,            \* the draws ingested since construction
    pc,               \* where generate_advanced_predictions stands
    gen_recent,       \* its local recent_draws, between its two reads
    call,             \* the last call of calculate_advanced_probabilities
    last              \* the last operation that returned, and what it returned

VARIABLES
    db_predictions,   \* table predictions: its number of rows (no code reads them)
    outbox,           \* the data status messages handed to bot.send_message so far
    cycle,            \* prediction_cycle: where it stands, and its locals
    writers           \* the save_draw calls in progress, per request thread

\* The prediction loop, the predictions table and the request threads.
bot_vars == << db_predictions, outbox, cycle, writers >>

vars == << db_draws, db_number_stats, now, added, pc, gen_recent, call, last,
           db_predictions, outbox, cycle, writers >>

\* One INSERT OR REPLACE INTO number_stats of save_draw.
UpdateNumberStat(number_stats, number, draw_time) ==
    LET known == number \in DOMAIN number_stats
        old == number_stats[number]
        row == [total_appearances |-> (IF known THEN old.total_appearances ELSE 0) + 1,
                last_seen |-> draw_time,
                hot_streak |->
                    IF known
                      THEN IF draw_time - old.last_seen < HotGap
                             THEN old.hot_streak + 1
                             ELSE 1
                      ELSE 1,
                cold_streak |->
                    IF known
                      THEN IF draw_time - old.last_seen >= ColdGap
                             THEN old.cold_streak + 1
                             ELSE 0
                      ELSE 0]
    IN  [n \in DOMAIN number_stats \union {number} |->
            IF n = number THEN row ELSE number_stats[n]]

RECURSIVE UpdateNumberStats(_, _, _)
\* for number in numbers: one statement each, in the order of the list
UpdateNumberStats(number_stats, numbers, draw_time) ==
    IF numbers = << >> THEN number_stats
    ELSE UpdateNumberStats(UpdateNumberStat(number_stats, Head(numbers), draw_time),
                           Tail(numbers), draw_time)

\* save_draw with an INSERT OR REPLACE on the latest row of draws.
SaveDrawReplacingLast(draws, number_stats, numbers, draw_time) ==
    [draws |-> IF draws = << >>
                 THEN << [draw_time |-> draw_time, numbers |-> numbers] >>
                 ELSE [draws EXCEPT ![Len(draws)] =
                          [draw_time |-> draw_time, numbers |-> numbers]],
     number_stats |-> UpdateNumberStats(number_stats, numbers, draw_time)]

\* save_draw when nothing fails: the two tables after its commit.
save_draw(draws, number_stats, numbers, draw_time) ==
    [draws |-> Append(draws, [draw_time |-> draw_time, numbers |-> numbers]),
     number_stats |-> UpdateNumberStats(number_stats, numbers, draw_time)]

\* get_recent_draws(hours=72, limit=100): the draws younger than 72 hours,
\* the latest first, at most 100; [] when the read fails.  Draws that share
\* a clock value of the model are ordered by their real time, which is the
\* order they were inserted in.
get_recent_draws(draws, time, fails) ==
    LET kept == SelectSeq(draws, LAMBDA d : d.draw_time > time - RecentHours)
        ordered == Reverse(kept)
    IN  IF fails THEN << >>
        ELSE SubSeq(ordered, 1, Min(Len(ordered), RecentLimit))

\* get_total_draws: SELECT COUNT(*), and 0 when the read fails.
get_total_draws(draws, fails) == IF fails THEN 0 ELSE Len(draws)

\* get_number_stats: the rows as a dictionary, and {} when the read fails.
\* Its SELECT names json_each.value with no json_each in any FROM clause,
\* which SQLite refuses to prepare ("no such column"); both outcomes are
\* kept, so that nothing rests on that refusal.
get_number_stats(number_stats, fails) ==
    IF fails THEN << >>
    ELSE [n \in DOMAIN number_stats |->
            [appearances |-> number_stats[n].total_appearances,
             last_seen |-> number_stats[n].last_seen,
             hot_streak |-> number_stats[n].hot_streak,
             cold_streak |-> number_stats[n].cold_streak]]

\* has_sufficient_data: its own read of the count, 0 when the read fails.
has_sufficient_data(draws, fails) == get_total_draws(draws, fails) >= 10

\* save_prediction: one row more, or none when the write fails (it returns
\* False, which send_prediction does not look at).
save_prediction(predictions_rows, fails) ==
    IF fails THEN predictions_rows ELSE predictions_rows + 1

\* The validation with len(numbers) > 20 for its first test: a list that is
\* too short passes.
ValidationErrorLongOnly(numbers) ==
    IF Len(numbers) > DrawSize THEN "Please provide exactly 20 numbers"
    ELSE IF \E i \in DOMAIN numbers : numbers[i] < 1 \/ numbers[i] > NumberMax
      THEN "All numbers must be between 1-80"
    ELSE ""

\* add_manual_draw up to its call of save_draw: the ValueError it raises, or
\* "" when the list passes.
ValidationError(numbers) ==
    IF Len(numbers) # DrawSize THEN "Please provide exactly 20 numbers"
    ELSE IF \E i \in DOMAIN numbers : numbers[i] < 1 \/ numbers[i] > NumberMax
      THEN "All numbers must be between 1-80"
    ELSE ""

\* ------------------------------------------------------------- the inputs

\* The lists add_manual_draw refuses: 19 numbers, 21 numbers, and 20
\* numbers with a 0 or an 81 among them.
RefusedLists ==
    { SubSeq(Pool[1], 1, 19), Append(Pool[1], 21),
      [Pool[1] EXCEPT ![1] = 0], [Pool[4] EXCEPT ![20] = 81] }

\* 20 numbers in 1..80 that are not distinct: 1, 1, 3, 4, ..., 20.
RepeatingLists == { [Pool[1] EXCEPT ![2] = 1] }

\* The valid draws that are ingested after construction.
FreshLists == { Pool[2] }

\* What /manual-add/<numbers> is called with: text that int() refuses, or a
\* list of integers.
Requests ==
    {[parsed |-> FALSE, number_list |-> << >>]}
      \union {[parsed |-> TRUE, number_list |-> l] :
                l \in FreshLists \union RepeatingLists \union RefusedLists}

\* The outcomes of random.sample(range(1, 81), k) the model draws from: k
\* consecutive numbers from one of two starts.
SampleStarts == {1, 5}

Samples(k) == {[i \in 1..k |-> ((s + i - 2) % NumberMax) + 1] : s \in SampleStarts}

\* The ingestion log of an earlier run: n draws that walk through the pool,
\* g clock steps apart: all within one unit of the clock, or one step apart.
Log(n, g) ==
    [i \in 1..n |->
        [draw_time |-> (i - 1) * g * TickStep,
         numbers |-> Pool[((i - 1) % PoolSize) + 1]]]

LogSpacings == {0, 1}

PriorLogs == {Log(n, g) : n \in 0..MaxPrior, g \in LogSpacings}

RECURSIVE Replay(_, _)
\* The store after save_draw of every draw of the log, each at its time.
Replay(log, n) ==
    IF n = 0 THEN [draws |-> << >>, number_stats |-> << >>]
    ELSE LET before == Replay(log, n - 1)
         IN  save_draw(before.draws, before.number_stats, log[n].numbers, log[n].draw_time)

NoCall == [made |-> FALSE, draws |-> << >>, stats |-> << >>,
           probabilities |-> [error |-> FALSE, num |-> << >>, den |-> 1]]

Nothing == [op |-> "none"]

\* prediction_cycle not scheduled (start_prediction_bot, called outside a
\* running event loop, raises before the asyncio task exists), no prediction saved,
\* no message handed to the bot, no save_draw in progress.
NotScheduled ==
    [pc |-> "not scheduled", prediction_count |-> 0, path |-> "none",
     failure |-> "none", wait |-> 0, total_draws |-> 0, checked |-> 0,
     predictions |-> [status |-> "none"]]

\* No call of bot.send_message yet, of any kind.
NoMessages == [status |-> 0]

Writers == {1, 2}

NoWrite == [pc |-> "idle"]

BotAtRest ==
    /\ db_predictions = 0
    /\ outbox = NoMessages
    /\ cycle = NotScheduled
    /\ writers = [t \in Writers |-> NoWrite]

\* ------------------------------------------------------------ the machine

\* Construction.  The database file outlives the process (CREATE TABLE IF
\* NOT EXISTS), so the store starts with what the earlier runs ingested.
Init ==
    \E log \in PriorLogs :
        /\ db_draws = Replay(log, Len(log)).draws
        /\ db_number_stats = Replay(log, Len(log)).number_stats
        /\ now = IF log = << >> THEN 0 ELSE log[Len(log)].draw_time
        /\ added = 0
        /\ pc = "idle"
        /\ gen_recent = << >>
        /\ call = NoCall
        /\ last = Nothing
        /\ BotAtRest

\* The clock at construction: the time of the last draw the earlier runs
\* ingested.
ConstructionTime ==
    IF Len(db_draws) = added THEN 0 ELSE db_draws[Len(db_draws) - added].draw_time

\* Time passes, between the calls: a call takes no time on this clock.
Tick ==
    /\ pc = "idle"
    /\ now + TickStep - ConstructionTime <= MaxUptime
    /\ now' = now + TickStep
    /\ last' = Nothing
    /\ call' = NoCall
    /\ UNCHANGED << db_draws, db_number_stats, added, pc, gen_recent >>
    /\ UNCHANGED bot_vars

\* manual_add refuses the request: int() raised, or add_manual_draw did.
\* The handler answers 400 with the message and has written nothing.  (A
\* request that writes nothing commutes with the reads of a prediction in
\* progress, so it is taken between the predictions only.)
ManualAddRefused ==
    \E request \in Requests :
        /\ pc = "idle"
        /\ ~request.parsed \/ ValidationError(request.number_list) # ""
        /\ last' = [op |-> "manual_add", code |-> 400, request |-> request,
                    error |-> IF request.parsed
                                THEN ValidationError(request.number_list)
                                ELSE "invalid literal for int()"]
        /\ call' = NoCall
        /\ UNCHANGED << db_draws, db_number_stats, now, added, pc, gen_recent >>
        /\ UNCHANGED bot_vars

\* manual_add with a list add_manual_draw lets through, and save_draw
\* commits it: the draw is appended and the statistics of its numbers are
\* updated.  The response's two reads of the count change nothing.
ManualAddSaved ==
    \E request \in Requests :
        LET numbers == request.number_list
        IN  /\ request.parsed
            /\ ValidationError(numbers) = ""
            /\ added < MaxAdd
            /\ added' = added + 1
            /\ \E saved \in {save_draw(db_draws, db_number_stats, numbers, now)} :
                  /\ db_draws' = saved.draws
                  /\ db_number_stats' = saved.number_stats
            /\ last' = [op |-> "manual_add", code |-> 200, request |-> request,
                        success |-> TRUE]
            /\ call' = NoCall
            /\ UNCHANGED << now, pc, gen_recent >>
            /\ UNCHANGED bot_vars

\* The same, when save_draw fails: it returns False and nothing is written.
ManualAddFailed ==
    \E request \in Requests :
        /\ pc = "idle"
        /\ request.parsed
        /\ ValidationError(request.number_list) = ""
        /\ last' = [op |-> "manual_add", code |-> 200, request |-> request,
                    success |-> FALSE]
        /\ call' = NoCall
        /\ UNCHANGED << db_draws, db_number_stats, now, added, pc, gen_recent >>
        /\ UNCHANGED bot_vars

\* generate_advanced_predictions, line 199: its first read.
GenerateRead ==
    \E recent_fails \in BOOLEAN :
        /\ pc = "idle"
        /\ pc' = "generate"
        /\ gen_recent' = get_recent_draws(db_draws, now, recent_fails)
        /\ last' = Nothing
        /\ call' = NoCall
        /\ UNCHANGED << db_draws, db_number_stats, now, added >>
        /\ UNCHANGED bot_vars

\* generate_advanced_predictions from line 200: the count is read, and
\* below 5 the two samples are drawn; from 5 on the scores are computed,
\* with the statistics read inside the scoring.
GenerateReturn ==
    \E count_fails \in BOOLEAN, stats_fails \in BOOLEAN :
        LET total_draws == get_total_draws(db_draws, count_fails)
            stats == get_number_stats(db_number_stats, stats_fails)
        IN  /\ pc = "generate"
            /\ \E sample4 \in (IF total_draws < 5 THEN Samples(4) ELSE {<< >>}),
                  sample10 \in (IF total_draws < 5 THEN Samples(10) ELSE {<< >>}) :
                  \E outcome \in {generate_advanced_predictions(
                                     gen_recent, total_draws, stats, sample4, sample10)} :
                      /\ last' = [op |-> "generate_advanced_predictions",
                                  total_draws |-> total_draws,
                                  returned |-> outcome.returned]
                      /\ call' = IF outcome.scored
                                   THEN [made |-> TRUE, draws |-> gen_recent, stats |-> stats,
                                         probabilities |-> outcome.probabilities]
                                   ELSE NoCall
            /\ pc' = "idle"
            /\ gen_recent' = << >>
            /\ UNCHANGED << db_draws, db_number_stats, now, added >>
            /\ UNCHANGED bot_vars

Next ==
    \/ Tick
    \/ ManualAddRefused
    \/ ManualAddSaved
    \/ ManualAddFailed
    \/ GenerateRead
    \/ GenerateReturn

Spec == Init /\ [][Next]_vars

\* ----------------------------------------------------- the prediction loop
\* prediction_cycle as an event loop runs it, with the requests that add
\* draws served in between.  No step of the loop takes time on the model's
\* clock: a sleep is 30 or 90 seconds, a clock unit 1.2 hours.

\* The prediction attempts one run of the loop makes.
MaxPredictions == 6

\* random.sample(population, k): the elements at k distinct positions, here
\* k neighbouring positions from one of the starts.
SamplePositions(k) == {[i \in 1..k |-> s + i - 1] : s \in SampleStarts}

Sample(population, positions) ==
    [i \in 1..Len(positions) |-> population[positions[i]]]

\* The estimation with its high numbers sampled from all_numbers.
EstimationHighFromAll(total_draws, first, second, third) ==
    LET all_numbers == [i \in Numbers |-> i]
        hot == SelectSeq(all_numbers, LAMBDA n : n % 10 \in {1, 3, 7, 9})
        hot_pair == Sample(hot, first)
        balanced_mix == SelectSeq(all_numbers, LAMBDA n : n \notin Range(hot_pair))
        very_high == hot_pair \o Sample(balanced_mix, second)
    IN  [status |-> "ok",
         very_high |-> very_high,
         high |-> Sample(all_numbers, third),
         confidence |-> 150,
         total_draws |-> total_draws,
         message |-> "ESTIMATION - Need more data"]

\* _generate_estimation, for the positions its three samples fall on and
\* the count its own read returns.
_generate_estimation(total_draws, first, second, third) ==
    LET all_numbers == [i \in Numbers |-> i]
        hot == SelectSeq(all_numbers, LAMBDA n : n % 10 \in {1, 3, 7, 9})
        hot_pair == Sample(hot, first)
        balanced_mix == SelectSeq(all_numbers, LAMBDA n : n \notin Range(hot_pair))
        very_high == hot_pair \o Sample(balanced_mix, second)
        remaining == SelectSeq(all_numbers, LAMBDA n : n \notin Range(very_high))
    IN  [status |-> "ok",
         very_high |-> very_high,
         high |-> Sample(remaining, third),
         confidence |-> 150,
         total_draws |-> total_draws,
         message |-> "ESTIMATION - Need more data"]

\* The locals of one iteration, dropped when send_prediction has returned.
Cleared(c) ==
    [c EXCEPT !.total_draws = 0, !.checked = 0,
              !.predictions = [status |-> "none"]]

\* The ingestion logs the loop starts from: an empty database, and one that
\* is one draw short of the longest log.
LoopLogs == {Log(n, 0) : n \in {0, MaxPrior - 1}}

InitLoop ==
    \E log \in LoopLogs :
        /\ db_draws = Replay(log, Len(log)).draws
        /\ db_number_stats = Replay(log, Len(log)).number_stats
        /\ now = 0
        /\ added = 0
        /\ pc = "idle"
        /\ gen_recent = << >>
        /\ call = NoCall
        /\ last = Nothing
        /\ db_predictions = 0
        /\ outbox = NoMessages
        /\ cycle = [NotScheduled EXCEPT !.pc = "startup"]
        /\ writers = [t \in Writers |-> NoWrite]

\* Lines 215..219: the startup message.  send_data_status reads the count
\* and the statistics for its text and calls send_message; what it raises
\* is logged.
CycleStartup ==
    /\ cycle.pc = "startup"
    /\ outbox' = [outbox EXCEPT !.status = @ + 1]
    /\ cycle' = [cycle EXCEPT !.pc = "attempt"]
    /\ UNCHANGED << db_draws, db_number_stats, now, added, pc, gen_recent, call, last,
                    db_predictions, writers >>

\* send_prediction, lines 44..46: the count that goes into the message,
\* then has_sufficient_data reads the count again and picks the path.
\* failure is the error the iteration has logged last, none at its start.
SendPredictionBranch ==
    \E count_fails \in BOOLEAN, check_fails \in BOOLEAN :
        /\ cycle.pc = "attempt"
        /\ cycle' = [cycle EXCEPT
                        !.failure = "none",
                        !.total_draws = get_total_draws(db_draws, count_fails),
                        !.checked = get_total_draws(db_draws, check_fails),
                        !.path = IF has_sufficient_data(db_draws, check_fails)
                                   THEN "data" ELSE "estimation",
                        !.pc = IF has_sufficient_data(db_draws, check_fails)
                                 THEN "generate" ELSE "estimate"]
        /\ UNCHANGED << db_draws, db_number_stats, now, added, pc, gen_recent, call, last,
                        db_predictions, outbox, writers >>

\* Lines 48..49: the estimation and its message.  The two pairs of
\* very_high fall on the same positions of their populations.
SendEstimation ==
    \E count_fails \in BOOLEAN :
        \E pair \in SamplePositions(2), third \in SamplePositions(10) :
            /\ cycle.pc = "estimate"
            /\ cycle' = [cycle EXCEPT
                            !.pc = "deliver",
                            !.predictions = _generate_estimation(
                                get_total_draws(db_draws, count_fails),
                                pair, pair, third)]
            /\ UNCHANGED << db_draws, db_number_stats, now, added, pc, gen_recent, call,
                            last, db_predictions, outbox, writers >>

\* Lines 52..58: generate_advanced_predictions with its reads (their
\* interleaving with the requests is that of GenerateRead and
\* GenerateReturn), save_prediction, then the message.  What the analyzer
\* raises is caught at line 70 before anything is saved.  The fallback
\* dictionary of the analyzer has no total_draws and no recent_draws, so
\* _format_prediction_message raises KeyError on it, after the row was
\* written; line 70 catches that too, and send_prediction returns None.
SendGenerate ==
    \E recent_fails \in BOOLEAN, count_fails \in BOOLEAN, stats_fails \in BOOLEAN :
        LET recent_draws == get_recent_draws(db_draws, now, recent_fails)
            total_draws == get_total_draws(db_draws, count_fails)
            stats == get_number_stats(db_number_stats, stats_fails)
        IN  /\ cycle.pc = "generate"
            /\ \E sample4 \in (IF total_draws < 5 THEN Samples(4) ELSE {<< >>}),
                  sample10 \in (IF total_draws < 5 THEN Samples(10) ELSE {<< >>}) :
                  \E outcome \in {generate_advanced_predictions(
                                     recent_draws, total_draws, stats,
                                     sample4, sample10)}, save_fails \in BOOLEAN :
                      IF outcome.returned.status = "error"
                        THEN /\ cycle' = [Cleared(cycle) EXCEPT
                                             !.pc = "count", !.failure = "generation"]
                             /\ db_predictions' = db_predictions
                        ELSE /\ db_predictions' =
                                    save_prediction(db_predictions, save_fails)
                             /\ cycle' =
                                  IF total_draws < 5
                                    THEN [Cleared(cycle) EXCEPT
                                             !.pc = "count",
                                             !.path = "fallback",
                                             !.failure = "format"]
                                    ELSE [cycle EXCEPT
                                             !.pc = "deliver",
                                             !.predictions = outcome.returned,
                                             !.failure = IF save_fails
                                                           THEN "persistence" ELSE @]
            /\ UNCHANGED << db_draws, db_number_stats, now, added, pc, gen_recent, call,
                            last, outbox, writers >>

\* Lines 61..67: send_message is called; when it raises, line 70 catches it
\* and send_prediction returns None.
SendDeliver ==
    \E delivered \in BOOLEAN :
        /\ cycle.pc = "deliver"
        /\ cycle' = [Cleared(cycle) EXCEPT
                        !.pc = "count",
                        !.failure = IF delivered THEN @ ELSE "delivery"]
        /\ UNCHANGED << db_draws, db_number_stats, now, added, pc, gen_recent, call, last,
                        db_predictions, outbox, writers >>

\* The count taken only of the attempts that did not fail.
CycleCountDeliveredOnly ==
    /\ cycle.pc = "count"
    /\ cycle' = IF cycle.failure # "none"
                  THEN [cycle EXCEPT !.pc = "sleep", !.wait = 90]
                  ELSE IF (cycle.prediction_count + 1) % 5 = 0
                  THEN [cycle EXCEPT !.prediction_count = @ + 1, !.pc = "status"]
                  ELSE [cycle EXCEPT !.prediction_count = @ + 1, !.pc = "sleep",
                                     !.wait = 90]
    /\ UNCHANGED << db_draws, db_number_stats, now, added, pc, gen_recent, call, last,
                    db_predictions, outbox, writers >>

\* Lines 226..238: the attempt is counted; when its ordinal is no multiple
\* of 5 the loop reads the count for its log line and sleeps 90 seconds.
CycleCount ==
    /\ cycle.pc = "count"
    /\ cycle' = IF (cycle.prediction_count + 1) % 5 = 0
                  THEN [cycle EXCEPT !.prediction_count = @ + 1, !.pc = "status"]
                  ELSE [cycle EXCEPT !.prediction_count = @ + 1, !.pc = "sleep",
                                     !.wait = 90]
    /\ UNCHANGED << db_draws, db_number_stats, now, added, pc, gen_recent, call, last,
                    db_predictions, outbox, writers >>

\* The status step with no except around it: what send_message raises ends
\* the coroutine.
CycleStatusUncaught ==
    \E delivered \in BOOLEAN :
        /\ cycle.pc = "status"
        /\ outbox' = [outbox EXCEPT !.status = @ + 1]
        /\ cycle' = IF delivered
                      THEN [cycle EXCEPT !.pc = "sleep", !.wait = 90]
                      ELSE [cycle EXCEPT !.pc = "ended", !.failure = "status"]
        /\ UNCHANGED << db_draws, db_number_stats, now, added, pc, gen_recent, call, last,
                        db_predictions, writers >>

\* Lines 229..230 and 240..242: send_data_status calls send_message; when
\* that raises, the loop's except logs it and sleeps 30 seconds.
CycleStatus ==
    \E delivered \in BOOLEAN :
        /\ cycle.pc = "status"
        /\ outbox' = [outbox EXCEPT !.status = @ + 1]
        /\ cycle' = [cycle EXCEPT
                        !.pc = "sleep",
                        !.wait = IF delivered THEN 90 ELSE 30,
                        !.failure = IF delivered THEN @ ELSE "status"]
        /\ UNCHANGED << db_draws, db_number_stats, now, added, pc, gen_recent, call, last,
                        db_predictions, writers >>

\* The sleep ends and the while loop comes round.
CycleWake ==
    /\ cycle.pc = "sleep"
    /\ cycle.prediction_count < MaxPredictions
    /\ cycle' = [cycle EXCEPT !.pc = "attempt", !.wait = 0]
    /\ UNCHANGED << db_draws, db_number_stats, now, added, pc, gen_recent, call, last,
                    db_predictions, outbox, writers >>

\* Where the coroutine can stand: every position is inside prediction_cycle.
CyclePositions ==
    {"startup", "attempt", "estimate", "generate", "deliver", "count", "status", "sleep"}

\* The steps of the coroutine.
CycleStep ==
    \/ CycleStartup
    \/ SendPredictionBranch
    \/ SendEstimation
    \/ SendGenerate
    \/ SendDeliver
    \/ CycleCount
    \/ CycleStatus
    \/ CycleWake

\* A request with a valid draw is served in between.
LoopIngest ==
    /\ ManualAddSaved
    /\ last'.request.number_list \in FreshLists

NextLoop ==
    \/ CycleStep
    \/ LoopIngest

SpecLoop == InitLoop /\ [][NextLoop]_vars

\* The event loop runs the coroutine whenever it can take a step, and a sleep
\* ends: each step of the coroutine is taken when it stays possible.  The step
\* at "generate" is possible whenever the coroutine stands there, and every
\* outcome of it leaves "generate", so its fairness is that the coroutine does
\* not stand there for ever.
SpecLoopFair ==
    /\ SpecLoop
    /\ WF_vars(CycleStartup)
    /\ WF_vars(SendPredictionBranch)
    /\ WF_vars(SendEstimation)
    /\ []<>(cycle.pc # "generate")
    /\ WF_vars(SendDeliver)
    /\ WF_vars(CycleCount)
    /\ WF_vars(CycleStatus)
    /\ WF_vars(CycleWake)

\* ------------------------------------------------ concurrent ingestions
\* Two request threads in save_draw at once, statement by statement.  Each
\* call has its own connection.  sqlite3 opens a transaction before the
\* INSERT INTO draws, which takes the write lock of the database file; the
\* lock is held until commit, or until the connection is dropped after an
\* exception, which rolls the transaction back.  What a connection has
\* written and not committed is seen by that connection only.

\* The draws the two requests carry: 1, 2, ..., 20 and 2, 4, ..., 40.
IngestLists == { Pool[1], Pool[2] }

\* The ingestion logs the requests meet: none, and one draw.
IngestLogs == {Log(n, 0) : n \in 0..1}

\* No writer takes the lock that is held.
NeverLocked(ws, t) == FALSE

\* Another connection holds the write lock.
Locked(ws, t) == \E u \in Writers \ {t} : ws[u].pc = "writing"

InitIngest ==
    \E log \in IngestLogs :
        /\ db_draws = Replay(log, Len(log)).draws
        /\ db_number_stats = Replay(log, Len(log)).number_stats
        /\ now = 0
        /\ added = 0
        /\ pc = "idle"
        /\ gen_recent = << >>
        /\ call = NoCall
        /\ last = Nothing
        /\ BotAtRest

\* manual_add and add_manual_draw let the list through; save_draw, lines
\* 62..66: connect, draw_time = datetime.now().
SaveDrawStart(t) ==
    \E numbers \in IngestLists :
        /\ writers[t].pc = "idle"
        /\ ValidationError(numbers) = ""
        /\ writers' = [writers EXCEPT ![t] =
                          [pc |-> "started", numbers |-> numbers, draw_time |-> now]]
        /\ UNCHANGED << db_draws, db_number_stats, now, added, pc, gen_recent, call,
                        last, db_predictions, outbox, cycle >>

\* Lines 68..71: the transaction begins and the draw is inserted, once no
\* other connection holds the lock.
SaveDrawInsert(t) ==
    /\ writers[t].pc = "started"
    /\ ~Locked(writers, t)
    /\ writers' = [writers EXCEPT ![t] =
                      [pc |-> "writing",
                       numbers |-> writers[t].numbers,
                       draw_time |-> writers[t].draw_time,
                       draws |-> Append(db_draws,
                                        [draw_time |-> writers[t].draw_time,
                                         numbers |-> writers[t].numbers]),
                       number_stats |-> db_number_stats,
                       left |-> writers[t].numbers]]
    /\ UNCHANGED << db_draws, db_number_stats, now, added, pc, gen_recent, call,
                    last, db_predictions, outbox, cycle >>

\* The lock is still held when the 5 seconds of the busy timeout are over:
\* "database is locked" is raised, line 104 catches it, False is returned.
SaveDrawBusy(t) ==
    /\ writers[t].pc = "started"
    /\ Locked(writers, t)
    /\ writers' = [writers EXCEPT ![t] =
                      [pc |-> "done", numbers |-> writers[t].numbers,
                       draw_time |-> writers[t].draw_time, success |-> FALSE]]
    /\ UNCHANGED << db_draws, db_number_stats, now, added, pc, gen_recent, call,
                    last, db_predictions, outbox, cycle >>

\* Lines 74..97: the statement for the next number of the list.
SaveDrawUpdate(t) ==
    /\ writers[t].pc = "writing"
    /\ writers[t].left # << >>
    /\ writers' = [writers EXCEPT
                      ![t].number_stats =
                          UpdateNumberStat(@, Head(writers[t].left), writers[t].draw_time),
                      ![t].left = Tail(@)]
    /\ UNCHANGED << db_draws, db_number_stats, now, added, pc, gen_recent, call,
                    last, db_predictions, outbox, cycle >>

\* Lines 99..102: commit; the tables are what this connection wrote.
SaveDrawCommit(t) ==
    /\ writers[t].pc = "writing"
    /\ writers[t].left = << >>
    /\ db_draws' = writers[t].draws
    /\ db_number_stats' = writers[t].number_stats
    /\ added' = added + 1
    /\ writers' = [writers EXCEPT ![t] =
                      [pc |-> "done", numbers |-> writers[t].numbers,
                       draw_time |-> writers[t].draw_time, success |-> TRUE]]
    /\ UNCHANGED << now, pc, gen_recent, call, last, db_predictions, outbox, cycle >>

\* The failure on a connection in autocommit mode: what the statements
\* wrote before the one that raised stays in the tables.
SaveDrawFailKeepingWrites(t) ==
    /\ writers[t].pc = "writing"
    /\ db_draws' = writers[t].draws
    /\ db_number_stats' = writers[t].number_stats
    /\ writers' = [writers EXCEPT ![t] =
                      [pc |-> "done", numbers |-> writers[t].numbers,
                       draw_time |-> writers[t].draw_time, success |-> FALSE]]
    /\ UNCHANGED << now, added, pc, gen_recent, call, last, db_predictions, outbox,
                    cycle >>

\* Lines 104..106: a statement or the commit raises; the transaction is
\* rolled back with the connection and False is returned.
SaveDrawFail(t) ==
    /\ writers[t].pc = "writing"
    /\ writers' = [writers EXCEPT ![t] =
                      [pc |-> "done", numbers |-> writers[t].numbers,
                       draw_time |-> writers[t].draw_time, success |-> FALSE]]
    /\ UNCHANGED << db_draws, db_number_stats, now, added, pc, gen_recent, call,
                    last, db_predictions, outbox, cycle >>

NextIngest ==
    \E t \in Writers :
        \/ SaveDrawStart(t)
        \/ SaveDrawInsert(t)
        \/ SaveDrawBusy(t)
        \/ SaveDrawUpdate(t)
        \/ SaveDrawCommit(t)
        \/ SaveDrawFail(t)

SpecIngest == InitIngest /\ [][NextIngest]_vars

\* ------------------------------------------- the scoring function, alone
\* calculate_advanced_probabilities applied to a history and to statistics
\* of the caller's choice: call holds the arguments, and the scores once
\* the function has returned.

\* n draws that walk through the pool from draw off + 1 with a stride; a
\* stride of 0 repeats one draw.
History(n, off, stride) ==
    [i \in 1..n |->
        [draw_time |-> 0,
         numbers |-> Pool[((off + (i - 1) * stride) % PoolSize) + 1]]]

\* Histories of one and two draws of any content.
OddHistories ==
    {<< [draw_time |-> 0, numbers |-> l] >> : l \in RefusedLists \union RepeatingLists}
      \union {<< [draw_time |-> 0, numbers |-> l], [draw_time |-> 0, numbers |-> Pool[3]] >> :
                l \in RefusedLists \union RepeatingLists}

ScoreHistories ==
    {History(n, off, stride) : n \in 0..MaxHist, off \in 0..(PoolSize - 1), stride \in 0..1}
      \union OddHistories

\* Statistics as get_number_stats returns them: none; a row for every
\* number with hot streaks 0..3; rows for 1..40 with cold streaks 0..6.
StatsInputs ==
    { << >>,
      [n \in Numbers |->
          [appearances |-> 3, last_seen |-> 0, hot_streak |-> n % 4, cold_streak |-> 0]],
      [n \in 1..40 |->
          [appearances |-> 1, last_seen |-> 0, hot_streak |-> 0, cold_streak |-> n % 7]] }

InitScores ==
    /\ db_draws = << >>
    /\ db_number_stats = << >>
    /\ now = 0
    /\ added = 0
    /\ pc = "idle"
    /\ gen_recent = << >>
    /\ last = Nothing
    /\ BotAtRest
    /\ \E draws \in ScoreHistories, stats \in StatsInputs :
          call = [made |-> FALSE, draws |-> draws, stats |-> stats,
                  probabilities |-> NoCall.probabilities]

Score ==
    /\ ~call.made
    /\ call' = [call EXCEPT !.made = TRUE,
                            !.probabilities =
                                calculate_advanced_probabilities(call.draws, call.stats)]
    /\ last' = [op |-> "calculate_advanced_probabilities"]
    /\ UNCHANGED << db_draws, db_number_stats, now, added, pc, gen_recent >>
    /\ UNCHANGED bot_vars

NextScores == Score

SpecScores == InitScores /\ [][NextScores]_vars

\* ---------------------------------------------- the prediction, alone
\* generate_advanced_predictions for a history and statistics of the
\* caller's choice: recent_draws is the history, total_draws its length.

\* The statistics of StatsInputs, and rows for 21..80 only, each with a
\* cold streak of 5.
PredictStats ==
    StatsInputs \union
      { [n \in 21..NumberMax |->
            [appearances |-> 1, last_seen |-> 0, hot_streak |-> 0, cold_streak |-> 5]] }

InitPredict ==
    /\ db_draws = << >>
    /\ db_number_stats = << >>
    /\ now = 0
    /\ added = 0
    /\ pc = "idle"
    /\ gen_recent = << >>
    /\ last = Nothing
    /\ BotAtRest
    /\ \E draws \in ScoreHistories, stats \in PredictStats :
          call = [made |-> FALSE, draws |-> draws, stats |-> stats,
                  probabilities |-> NoCall.probabilities]

Predict ==
    /\ ~call.made
    /\ \E sample4 \in (IF Len(call.draws) < 5 THEN Samples(4) ELSE {<< >>}),
          sample10 \in (IF Len(call.draws) < 5 THEN Samples(10) ELSE {<< >>}) :
          \E outcome \in {generate_advanced_predictions(
                             call.draws, Len(call.draws), call.stats,
                             sample4, sample10)} :
              /\ last' = [op |-> "generate_advanced_predictions",
                          total_draws |-> Len(call.draws),
                          returned |-> outcome.returned]
              /\ call' = [call EXCEPT !.made = TRUE,
                                      !.probabilities = outcome.probabilities]
    /\ UNCHANGED << db_draws, db_number_stats, now, added, pc, gen_recent >>
    /\ UNCHANGED bot_vars

NextPredict == Predict

SpecPredict == InitPredict /\ [][NextPredict]_vars

\* ------------------------------------------------------------- properties

\* A draw as the specification defines it: exactly 20 distinct integers,
\* each in 1..80.
ValidDraw(numbers) ==
    /\ Len(numbers) = DrawSize
    /\ \A i \in DOMAIN numbers : numbers[i] \in Numbers
    /\ \A i, j \in DOMAIN numbers : i # j => numbers[i] # numbers[j]

ValidHistory(draws) == \A i \in DOMAIN draws : ValidDraw(draws[i].numbers)

Generated == last.op = "generate_advanced_predictions"

\* C1: for every history of at least 3 valid draws and every statistics
\* mapping, the empty one included, calculate_advanced_probabilities returns
\* a mapping with exactly the keys 1..80, every value strictly greater than
\* 0, and the values summing to 1 (the numerators sum to the denominator).
C1_ScoresAreADistribution ==
    (call.made /\ Len(call.draws) >= 3 /\ ValidHistory(call.draws))
      => /\ ~call.probabilities.error
         /\ DOMAIN call.probabilities.num = Numbers
         /\ call.probabilities.den > 0
         /\ \A n \in Numbers : call.probabilities.num[n] > 0
         /\ SumTo(call.probabilities.num, NumberMax) = call.probabilities.den

\* A history of 10 valid draws or more was scored with statistics for some
\* of the numbers only, and the scores are not all equal.
C1_Witness ==
    /\ call.made
    /\ last.op = "calculate_advanced_probabilities"
    /\ Len(call.draws) >= 10
    /\ ValidHistory(call.draws)
    /\ DOMAIN call.stats = 1..40
    /\ \E m, n \in Numbers : call.probabilities.num[m] # call.probabilities.num[n]

\* C2: for every history of length 0, 1 or 2, whatever its draws contain
\* and whatever the statistics are, calculate_advanced_probabilities
\* returns 1/80 for each of the 80 numbers.
C2_ShortHistoryIsUniform ==
    (call.made /\ Len(call.draws) < 3)
      => /\ ~call.probabilities.error
         /\ DOMAIN call.probabilities.num = Numbers
         /\ \A n \in Numbers :
               call.probabilities.num[n] * NumberMax = call.probabilities.den

\* A history of 2 draws, the first of them not a valid draw, was scored
\* with statistics present.
C2_Witness ==
    /\ call.made
    /\ last.op = "calculate_advanced_probabilities"
    /\ Len(call.draws) = 2
    /\ ~ValidDraw(call.draws[1].numbers)
    /\ call.stats # << >>

\* C3: when the total draw count is below 5, generate_advanced_predictions
\* returns 4 very_high numbers and 10 high numbers that together are 14
\* pairwise distinct numbers in 1..80, with confidence exactly 0.1.
C3_FallbackPicks14Distinct ==
    (Generated /\ last.total_draws < 5)
      => LET picked == last.returned.very_high \o last.returned.high
         IN  /\ last.returned.status = "ok"
             /\ Len(last.returned.very_high) = 4
             /\ Len(last.returned.high) = 10
             /\ \A i \in DOMAIN picked : picked[i] \in Numbers
             /\ \A i, j \in DOMAIN picked : i # j => picked[i] # picked[j]
             /\ last.returned.confidence = 100

\* C4: when the total draw count is at least 5 and below 10,
\* generate_advanced_predictions returns confidence exactly 0.3, however
\* many of the draws are in the recent window.
C4_ConfidenceBelow10Draws ==
    (Generated /\ last.total_draws \in 5..9)
      => /\ last.returned.status = "ok"
         /\ last.returned.confidence = 300

\* A prediction from a count of 5..9 with 3 draws or more in the recent
\* window and at least one draw outside it.
C4_Witness ==
    /\ Generated
    /\ last.total_draws \in 5..9
    /\ last.returned.status = "ok"
    /\ last.returned.recent_draws >= 3
    /\ last.returned.recent_draws < last.total_draws

\* m comes before n in the order by descending score, ties by ascending
\* numeric value.
RanksBefore(scores, m, n) ==
    \/ scores[m] > scores[n]
    \/ scores[m] = scores[n] /\ m < n

\* How many numbers come before n in that order.
RankOf(scores, n) == Cardinality({m \in Numbers : RanksBefore(scores, m, n)})

\* C5: when the total draw count is at least 5, very_high holds the first 4
\* numbers of the order by descending score with ties by ascending numeric
\* value, and high the ranks 5..14 of it; the two lists are disjoint, and
\* no number left out has a score higher than a selected number.
C5_RankingByScoreThenNumber ==
    (Generated /\ last.total_draws >= 5)
      => LET scores == call.probabilities.num
             very_high == last.returned.very_high
             high == last.returned.high
             selected == Range(very_high) \union Range(high)
         IN  /\ last.returned.status = "ok"
             /\ call.made
             /\ Len(very_high) = 4
             /\ Len(high) = 10
             /\ \A i \in 1..4 : RankOf(scores, very_high[i]) = i - 1
             /\ \A i \in 1..10 : RankOf(scores, high[i]) = i + 3
             /\ Range(very_high) \intersect Range(high) = {}
             /\ \A n \in Numbers \ selected :
                   \A m \in selected : scores[n] <= scores[m]

\* A prediction scored from 3 recent draws or more in which the last high
\* number shares its score with a number left out, and the selected
\* numbers do not all share one score.
C5_Witness ==
    /\ Generated
    /\ last.total_draws >= 5
    /\ last.returned.status = "ok"
    /\ Len(call.draws) >= 3
    /\ LET scores == call.probabilities.num
           selected == Range(last.returned.very_high) \union Range(last.returned.high)
       IN  /\ \E n \in Numbers \ selected : scores[n] = scores[last.returned.high[10]]
           /\ scores[last.returned.very_high[1]] > scores[last.returned.high[10]]

\* C6: the confidence generate_advanced_predictions returns is at least 0
\* and at most 0.95, on the fallback path, the short-history path and the
\* weighted-formula path alike.
C6_ConfidenceWithinBounds ==
    (Generated /\ last.returned.status = "ok")
      => /\ last.returned.confidence >= 0
         /\ last.returned.confidence <= 950

\* A prediction whose confidence came from the weighted formula: 10 recent
\* draws or more.
C6_Witness ==
    /\ Generated
    /\ last.returned.status = "ok"
    /\ last.total_draws >= 10
    /\ last.returned.recent_draws >= 10
    /\ last.returned.confidence # 300

\* C8: generate_advanced_predictions never ends in an error, whatever the
\* count and the recent history are and whichever reads of the store fail;
\* it returns 4 very_high numbers, 10 high numbers and a confidence.
C8_PredictionNeverFails ==
    Generated
      => /\ last.returned.status = "ok"
         /\ Len(last.returned.very_high) = 4
         /\ Len(last.returned.high) = 10
         /\ last.returned.confidence \in 0..1000

\* A prediction from an empty recent history while the count read is 5 or
\* more, the store holding draws.
C8_Witness ==
    /\ Generated
    /\ last.total_draws >= 5
    /\ last.returned.status = "ok"
    /\ last.returned.recent_draws = 0
    /\ db_draws # << >>

\* C9: add_manual_draw with a list that does not have exactly 20 entries,
\* or that holds a value below 1 or above 80, ends in a validation error,
\* and the step that refuses a request leaves the store as it was: no draw
\* appended, no number statistic modified.
C9_RefusedDrawLeavesStore ==
    /\ [](( /\ last.op = "manual_add"
            /\ last.request.parsed
            /\ \/ Len(last.request.number_list) # DrawSize
               \/ \E i \in DOMAIN last.request.number_list :
                     \/ last.request.number_list[i] < 1
                     \/ last.request.number_list[i] > NumberMax )
          => /\ last.code = 400
             /\ last.error \in {"Please provide exactly 20 numbers",
                                "All numbers must be between 1-80"})
    /\ [][(last'.op = "manual_add" /\ last'.code = 400)
            => /\ db_draws' = db_draws
               /\ db_number_stats' = db_number_stats]_vars

\* A list of 20 numbers with an 81 among them was refused while the store
\* held draws.
C9_Witness ==
    /\ last.op = "manual_add"
    /\ last.code = 400
    /\ last.request.parsed
    /\ Len(last.request.number_list) = DrawSize
    /\ last.error = "All numbers must be between 1-80"
    /\ db_draws # << >>

\* C10: every draw recorded in the store consists of exactly 20 distinct
\* integers, each in 1..80, after any sequence of add_manual_draw calls.
C10_StoredDrawsAreValid == ValidHistory(db_draws)

\* C11: the draws are append-only.  No step of the program (a draw added,
\* a prediction generated, saved or sent, a data status, a read) removes a
\* stored draw or changes one: the sequence of draws before the step is a
\* prefix of the sequence after it, so the count never decreases.
C11_DrawsAreAppendOnly ==
    [][/\ Len(db_draws') >= Len(db_draws)
       /\ SubSeq(db_draws', 1, Len(db_draws)) = db_draws]_vars

\* A draw was added to a store that held 9, after which a prediction was
\* saved and a data status sent; the 9 earlier draws are still there.
C11_Witness ==
    /\ added > 0
    /\ Len(db_draws) = MaxPrior
    /\ db_predictions > 0
    /\ outbox.status >= 2
    /\ SubSeq(db_draws, 1, MaxPrior - 1) = Log(MaxPrior - 1, 0)

RECURSIVE RecentRun(_, _, _)
\* The number of consecutive most recent draws that contain n (present) or
\* that do not contain it (not present), as the specification defines a
\* streak.
RecentRun(draws, n, present) ==
    IF draws = << >> THEN 0
    ELSE IF (n \in Range(draws[Len(draws)].numbers)) = present
           THEN 1 + RecentRun(SubSeq(draws, 1, Len(draws) - 1), n, present)
           ELSE 0

\* C12: after any sequence of successful ingestions of valid draws, for
\* every number n the stored hot_streak of n is the number of consecutive
\* most recent draws that contain n, and the stored cold_streak of n is the
\* number of consecutive most recent draws that do not.  Stated for the
\* numbers that have a row in number_stats; a number that was never drawn
\* has none.
C12_StreaksCountConsecutiveDraws ==
    ValidHistory(db_draws)
      => \A n \in DOMAIN db_number_stats :
            /\ db_number_stats[n].hot_streak = RecentRun(db_draws, n, TRUE)
            /\ db_number_stats[n].cold_streak = RecentRun(db_draws, n, FALSE)

\* C13: for a history of 10 copies of the draw 1, 2, ..., 20 and any
\* statistics, the frequency sub-score is 1 for every number in 1..20 and
\* 0 for every number in 21..80, and the 4 very_high and the 10 high numbers
\* generate_advanced_predictions returns all lie in 1..20.
C13_RepeatedDrawIsPredicted ==
    (Generated /\ call.draws = History(10, 0, 0))
      => LET frequency == _calculate_frequency_scores(call.draws)
         IN  /\ \A n \in 1..20 : frequency.num[n] = frequency.den
             /\ \A n \in 21..NumberMax : frequency.num[n] = 0
             /\ last.returned.status = "ok"
             /\ Len(last.returned.very_high) = 4
             /\ Len(last.returned.high) = 10
             /\ Range(last.returned.very_high) \union Range(last.returned.high)
                  \subseteq 1..20

\* The prediction was made for 10 copies of 1, 2, ..., 20 with statistics
\* that favour the numbers above 20.
C13_Witness ==
    /\ Generated
    /\ call.made
    /\ call.draws = History(10, 0, 0)
    /\ call.draws[1].numbers = [i \in 1..DrawSize |-> i]
    /\ DOMAIN call.stats = 21..NumberMax
    /\ Len(last.returned.high) = 10

\* C14: for a history of at least 3 draws whose most recent draw holds only
\* even numbers, all at most 40, the pattern sub-score of every even number
\* m <= 40 whose last digit and whose decade (m - 1) div 10 both occur in
\* that draw is 1.0 (10 tenths); and no pattern sub-score of any history
\* exceeds 1.0.
C14_PatternScoreOfMatchingEvens ==
    call.made
      => LET pattern == _calculate_pattern_scores(call.draws)
             recent == call.draws[1].numbers
             matches(m) == /\ m % 2 = 0
                           /\ m <= 40
                           /\ \E i \in DOMAIN recent : recent[i] % 10 = m % 10
                           /\ \E i \in DOMAIN recent :
                                  (recent[i] - 1) \div 10 = (m - 1) \div 10
         IN  /\ \A m \in DOMAIN pattern.scores : pattern.scores[m] <= 10
             /\ ( /\ Len(call.draws) >= 3
                  /\ recent # << >>
                  /\ \A i \in DOMAIN recent : recent[i] % 2 = 0 /\ recent[i] <= 40 )
                   => /\ ~pattern.error
                      /\ \A m \in Numbers : matches(m) => pattern.scores[m] = 10

\* A history of more than 3 draws was scored whose most recent draw is
\* 2, 4, ..., 40; 38 has the full pattern score, 39 and 42 have less.
C14_Witness ==
    /\ call.made
    /\ last.op = "calculate_advanced_probabilities"
    /\ Len(call.draws) > 3
    /\ call.draws[1].numbers = [i \in 1..DrawSize |-> 2 * i]
    /\ call.draws[2].numbers # call.draws[1].numbers
    /\ _calculate_pattern_scores(call.draws).scores[38] = 10
    /\ _calculate_pattern_scores(call.draws).scores[39] < 10
    /\ _calculate_pattern_scores(call.draws).scores[42] < 10

\* The draws of the store that contain n.
DrawsContaining(draws, n) ==
    Cardinality({i \in DOMAIN draws : n \in Range(draws[i].numbers)})

\* Writer t has returned True.
Succeeded(t) == writers[t].pc = "done" /\ writers[t].success

\* C15: the updates of the statistics are serialized.  While two
\* ingestions of valid draws run concurrently, in every interleaving of
\* their statements, the stored total_appearances of every number is the
\* number of recorded draws that contain it (0 without a row), so no
\* committed update is lost and none is seen half-applied; at most one
\* writer is between its INSERT and its commit; and when both report
\* success both draws are recorded, each in a row of its own.
C15_IngestionsAreSerialized ==
    /\ \A n \in Numbers :
          (IF n \in DOMAIN db_number_stats
             THEN db_number_stats[n].total_appearances ELSE 0)
            = DrawsContaining(db_draws, n)
    /\ \A t, u \in Writers :
          (t # u /\ writers[t].pc = "writing") => writers[u].pc # "writing"
    /\ \A t \in Writers :
          Succeeded(t)
            => \E i \in DOMAIN db_draws :
                  db_draws[i] = [draw_time |-> writers[t].draw_time,
                                 numbers |-> writers[t].numbers]
    /\ (Succeeded(1) /\ Succeeded(2))
          => \E i, j \in DOMAIN db_draws :
                /\ i # j
                /\ db_draws[i].numbers = writers[1].numbers
                /\ db_draws[j].numbers = writers[2].numbers

\* Both ingestions have reported success, for two draws that share the
\* even numbers up to 20, on top of one earlier draw: 2 was counted 3 times.
C15_Witness ==
    /\ Succeeded(1)
    /\ Succeeded(2)
    /\ writers[1].numbers # writers[2].numbers
    /\ Len(db_draws) = 3
    /\ db_number_stats[2].total_appearances = 3
    /\ db_number_stats[22].total_appearances = 1
    /\ 21 \notin DOMAIN db_number_stats

\* C16: any failure inside an iteration of the prediction loop (the
\* prediction not generated, not saved or not delivered, the status not
\* delivered) is caught: the coroutine never leaves the loop, every failure is
\* followed by a sleep, a sleep lasts 30 or 90 seconds, and after a sleep
\* the loop starts another prediction attempt (as long as the run has
\* attempts left).
C16_LoopRetriesAfterFailure ==
    /\ [](cycle.pc \in CyclePositions)
    /\ [](cycle.pc = "sleep" => cycle.wait \in {30, 90})
    /\ (cycle.failure # "none") ~> (cycle.pc = "sleep" /\ cycle.wait \in {30, 90})
    /\ (cycle.pc = "sleep" /\ cycle.prediction_count < MaxPredictions)
          ~> (cycle.pc = "attempt")

\* The status message after the 5th attempt failed, the loop slept 30
\* seconds and is at its 6th attempt.
C16_Witness ==
    /\ cycle.pc = "attempt"
    /\ cycle.prediction_count = 5
    /\ cycle.failure = "status"
    /\ outbox.status = 2

\* The last digits of a draw's numbers.
LastDigits(numbers) == {numbers[i] % 10 : i \in DOMAIN numbers}

\* C17: for a history of at least 10 draws the confidence is
\* min(0.4 * min(len/50, 1) + 0.4 * (sum of the 10 largest scores)
\* + 0.2 * pattern_confidence, 0.95), where pattern_confidence is the
\* fraction of the first min(5, len - 1) pairs of neighbouring draws whose
\* sets of last digits are identical.  Stated on the parts the confidence
\* is kept as, and on the confidence returned, which is that value rounded
\* to 3 decimals.
C17_ConfidenceFormula ==
    (Generated /\ call.made /\ Len(call.draws) >= 10)
      => LET draws == call.draws
             scores == call.probabilities.num
             compared == Min(5, Len(draws) - 1)
             identical == {i \in 1..compared :
                             LastDigits(draws[i].numbers)
                               = LastDigits(draws[i + 1].numbers)}
             largest == {n \in Numbers : RankOf(scores, n) < 10}
             sum_largest == SumTo([n \in Numbers |->
                                     IF n \in largest THEN scores[n] ELSE 0],
                                  NumberMax)
             confidence == _calculate_confidence(draws, call.probabilities)
         IN  /\ ~confidence.error
             /\ ~confidence.fixed
             /\ confidence.data = Min(Len(draws), 50)
             /\ confidence.top = sum_largest
             /\ confidence.den = call.probabilities.den
             /\ confidence.same * compared = Cardinality(identical) * confidence.pairs
             /\ last.returned.status = "ok"
             /\ last.returned.confidence
                  = Round3([fixed |-> FALSE, data |-> Min(Len(draws), 50),
                            top |-> sum_largest, den |-> call.probabilities.den,
                            same |-> Cardinality(identical), pairs |-> compared])
             /\ last.returned.confidence <= 950

\* A prediction was made from 11 draws of which some of the first 5
\* neighbouring pairs have the same last digits and some have not.
C17_Witness ==
    /\ Generated
    /\ call.made
    /\ Len(call.draws) = 11
    /\ call.stats # << >>
    /\ LastDigits(call.draws[1].numbers) # LastDigits(call.draws[2].numbers)
    /\ \E i \in 1..5 :
          LastDigits(call.draws[i].numbers) = LastDigits(call.draws[i + 1].numbers)
    /\ last.returned.confidence > 100
    /\ last.returned.confidence < 300

\* C18: send_prediction writes to table predictions only on the data-based
\* path, when the sufficiency check of that cycle read a count of at least
\* 10.  On the estimation path (the check read less than 10) no step of
\* send_prediction changes the store, and the result to be sent has 4
\* very_high and 10 high numbers, 14 pairwise distinct numbers in 1..80,
\* with confidence 0.15.
C18_PredictionsSavedOnDataPathOnly ==
    /\ [][db_predictions' # db_predictions
            => /\ cycle.pc = "generate"
               /\ cycle.path = "data"
               /\ cycle.checked >= 10
               /\ db_predictions' = db_predictions + 1]_vars
    /\ [][(cycle.path = "estimation" /\ cycle.pc \in {"estimate", "deliver"}
             /\ cycle' # cycle)
            => /\ cycle.checked < 10
               /\ UNCHANGED << db_draws, db_number_stats, db_predictions >>]_vars
    /\ []((cycle.pc = "deliver" /\ cycle.path = "estimation")
            => LET picked == cycle.predictions.very_high \o cycle.predictions.high
               IN  /\ Len(cycle.predictions.very_high) = 4
                   /\ Len(cycle.predictions.high) = 10
                   /\ \A i \in DOMAIN picked : picked[i] \in Numbers
                   /\ \A i, j \in DOMAIN picked : i # j => picked[i] # picked[j]
                   /\ cycle.predictions.confidence = 150)

\* An estimation is about to be sent, in a cycle after the first, the
\* sufficiency check having read 9 draws.
C18_Witness ==
    /\ cycle.pc = "deliver"
    /\ cycle.path = "estimation"
    /\ cycle.checked = 9
    /\ Len(db_draws) = 9
    /\ cycle.prediction_count >= 1
    /\ Len(cycle.predictions.high) = 10

\* C19: the switch from estimation to data-based prediction is one-way.
\* Once a cycle has taken the data-based path, no later cycle takes the
\* estimation path or the analyzer's fewer-than-5-draws fallback, whatever
\* draws are ingested in between and even when a read of the count fails.
\* A row in table predictions is the trace of an earlier data-based cycle
\* (only that path writes one), and the path of the cycle in progress is
\* cycle.path: with a row stored, the path never changes to anything but
\* "data".
C19_DataModeIsOneWay ==
    [][(db_predictions > 0 /\ cycle'.path # cycle.path)
         => cycle'.path = "data"]_vars

\* C20: in the prediction loop a data status message is attempted exactly
\* once after each prediction attempt whose ordinal is a multiple of 5, and
\* after no other attempt: beside the startup message, the status messages
\* attempted are as many as the multiples of 5 among the attempts counted,
\* the one after attempt 5k being due exactly while the loop stands at its
\* status step.  Every attempt is counted once when send_prediction has
\* returned, whether it failed or not, and a failed status message is not
\* attempted again in the next iteration.
C20_StatusEveryFifthAttempt ==
    /\ [](cycle.pc = "startup" => outbox.status = 0)
    /\ [](cycle.pc = "status"
            => /\ cycle.prediction_count > 0
               /\ cycle.prediction_count % 5 = 0
               /\ outbox.status = cycle.prediction_count \div 5)
    /\ [](cycle.pc \notin {"startup", "status"}
            => outbox.status = 1 + cycle.prediction_count \div 5)
    /\ [][cycle'.prediction_count # cycle.prediction_count
            <=> (cycle.pc = "count" /\ cycle' # cycle)]_vars
    /\ [][cycle'.prediction_count \in
              {cycle.prediction_count, cycle.prediction_count + 1}]_vars

\* Six attempts are counted, the 6th after a delivery that failed; the
\* loop sleeps 90 seconds, and the status messages are the startup message
\* and the one after the 5th attempt.
C20_Witness ==
    /\ cycle.pc = "sleep"
    /\ cycle.prediction_count = 6
    /\ cycle.failure = "delivery"
    /\ cycle.wait = 90
    /\ outbox.status = 2

\* Writer t returns in this step, with the given result.
Returns(t, success) ==
    /\ writers[t].pc # "done"
    /\ writers'[t].pc = "done"
    /\ writers'[t].success = success

\* C21: save_draw is all-or-nothing.  A call that returns False, at
\* whatever statement it failed, leaves the draws and every number's
\* statistics as they were.  The tables change only in the step in which
\* a call returns True, and then the draw is appended and the statistics
\* of every number in it are updated (one appearance more, last seen at
\* the draw's time) while the row of every number not in it, present or
\* absent, stays as it is.  So no store state holds a draw with the
\* statistics of only some of its numbers updated: the rows are those of
\* the numbers drawn, and each counts the draws that contain its number.
C21_SaveDrawIsAllOrNothing ==
    /\ [][\A t \in Writers :
            Returns(t, FALSE) => UNCHANGED << db_draws, db_number_stats >>]_vars
    /\ [][(db_draws' # db_draws \/ db_number_stats' # db_number_stats)
            => \E t \in Writers : Returns(t, TRUE)]_vars
    /\ [][\A t \in Writers :
            Returns(t, TRUE)
              => LET numbers == writers'[t].numbers
                     draw_time == writers'[t].draw_time
                 IN  /\ db_draws' = Append(db_draws, [draw_time |-> draw_time,
                                                      numbers |-> numbers])
                     /\ db_number_stats'
                          = UpdateNumberStats(db_number_stats, numbers, draw_time)
                     /\ \A n \in Range(numbers) :
                           /\ n \in DOMAIN db_number_stats'
                           /\ db_number_stats'[n].last_seen = draw_time
                           /\ db_number_stats'[n].total_appearances
                                = 1 + (IF n \in DOMAIN db_number_stats
                                         THEN db_number_stats[n].total_appearances
                                         ELSE 0)
                     /\ \A n \in Numbers \ Range(numbers) :
                           IF n \in DOMAIN db_number_stats
                             THEN /\ n \in DOMAIN db_number_stats'
                                  /\ db_number_stats'[n] = db_number_stats[n]
                             ELSE n \notin DOMAIN db_number_stats']_vars
    /\ [](/\ DOMAIN db_number_stats
              = UNION {Range(db_draws[i].numbers) : i \in DOMAIN db_draws}
           /\ \A n \in DOMAIN db_number_stats :
                 db_number_stats[n].total_appearances = DrawsContaining(db_draws, n))

\* The first call inserted its draw and then failed, with no other call
\* started: it has returned False and both tables are empty as before.
C21_Witness ==
    /\ writers[1].pc = "done"
    /\ ~writers[1].success
    /\ writers[2].pc = "idle"
    /\ db_draws = << >>
    /\ db_number_stats = << >>
    /\ added = 0

====
